---- MODULE Spec2Model ----
(***************************************************************************)
(* Model of the filmsearch front-end: the HomePage data-fetch lifecycle    *)
(* (components/HomePage.tsx), the axios client's response interceptor      *)
(* (services/api.ts) and the three presentation widgets                    *)
(* (components/widgets/*.tsx).                                             *)
(*                                                                         *)
(* An optional JavaScript value (null / undefined / absent field) is the   *)
(* empty sequence None; a present value x is the one-element sequence      *)
(* Some(x).                                                                *)
(***************************************************************************)
EXTENDS Integers, Sequences, FiniteSets, TLC

VARIABLES
    data,         \* useState<HomepageData | null>(null)
    loading,      \* useState<boolean>(true)
    error,        \* useState<string | null>(null)
    mounted,      \* has the mount effect (useEffect(..., [])) run
    inflight,     \* tokens of the getHomepageData() promises not yet settled
    issued,       \* number of getHomepageData() calls made so far
    retries,      \* number of activations of the retry button
    lastSettled,  \* the most recently settled promise and what it carried
    widget,       \* which widget is rendered on its own: "top", "new", "genres"
    props,        \* the sequence passed to that widget (movies or genres)
    rendered,     \* what the widget rendered, None before it has
    searchQuery,  \* SearchBar: useState<string>('')
    isSearching,  \* SearchBar: useState<boolean>(false)
    searchInflight, \* the searchMovies() promises not yet settled, with their q
    searchIssued, \* number of searchMovies() calls made so far
    lastAlert     \* the last alert() SearchBar raised

pageVars == <<data, loading, error, mounted, inflight, issued, retries, lastSettled>>
widgetVars == <<widget, props, rendered>>
searchVars == <<searchQuery, isSearching, searchInflight, searchIssued, lastAlert>>
vars == <<pageVars, widgetVars, searchVars>>

----------------------------------------------------------------------------
(* Bounds of the model *)

MaxFetches == 3      \* getHomepageData() calls explored per run
MaxTop == 9          \* longest top_movies sequence the server returns
MaxRel == 7          \* longest new_releases sequence the server returns
MaxGenres == 11      \* longest popular_genres sequence the server returns
MaxCount == 3        \* largest movies_count of a genre

----------------------------------------------------------------------------
(* Optional values and JavaScript helpers *)

None == <<>>
Some(x) == <<x>>

\* x || d for an optional number: undefined and 0 are both falsy
OrDefault(opt, d) == IF opt = None THEN d ELSE IF opt[1] = 0 THEN d ELSE opt[1]

Min(a, b) == IF a <= b THEN a ELSE b

\* Array.prototype.slice(0, end)
SliceTo(s, end) == SubSeq(s, 1, Min(end, Len(s)))

\* Math.max(...xs): -Infinity for no arguments; every count is >= 0, so -1
\* stands for -Infinity
MathMax(xs) ==
    IF Len(xs) = 0 THEN 0 - 1
    ELSE CHOOSE m \in {xs[i] : i \in 1..Len(xs)} :
             \A j \in 1..Len(xs) : xs[j] <= m

----------------------------------------------------------------------------
(* The data the server returns (types/api.ts) *)

\* Movie[] of n entries
MovieList(n, base) == [i \in 1..n |-> [id |-> base + i]]

\* Genre.movies_count?: number
CountVals == {None} \cup {Some(c) : c \in 0..MaxCount}

\* Genre[] of n entries: every entry carries the count rest, but the last one,
\* which carries the count last
GenreList(n, rest, last) ==
    [i \in 1..n |-> [id |-> i, movies_count |-> IF i = n THEN last ELSE rest]]

GenreLists ==
    {GenreList(n, rest, last) :
        n \in 0..MaxGenres, rest \in {None, Some(0), Some(1)}, last \in CountVals}

HomepageData ==
    {[top_movies |-> MovieList(nt, 100),
      popular_genres |-> g,
      new_releases |-> MovieList(nr, 200)] :
        nt \in 0..MaxTop, nr \in 0..MaxRel, g \in GenreLists}

----------------------------------------------------------------------------
(* Presentation widgets (components/widgets) *)

TopMoviesCap == 8       \* movies.slice(0, 8)
PopularGenresCap == 10  \* genres.slice(0, 10)
NewReleasesCap == 6     \* movies.slice(0, 6)

\* the ranked list without its cap
TopMoviesWidgetUncapped(movies) ==
    [i \in 1..Len(movies) |-> [rank |-> i, movie |-> movies[i]]]

\* the ranked list: one item per movie of movies.slice(0, 8), with its badge
TopMoviesWidget(movies) ==
    LET shown == SliceTo(movies, TopMoviesCap) IN
    [i \in 1..Len(shown) |-> [rank |-> i, movie |-> shown[i]]]

\* the grid: one card per movie of movies.slice(0, 6)
NewReleasesWidget(movies) ==
    LET shown == SliceTo(movies, NewReleasesCap) IN
    [i \in 1..Len(shown) |-> [movie |-> shown[i]]]

\* Math.max(...genres.map(genre => genre.movies_count || 0))
maxMoviesCount(genres) ==
    MathMax([i \in 1..Len(genres) |-> OrDefault(genres[i].movies_count, 0)])

\* ((genre.movies_count || 0) / maxMoviesCount) * 100, or 0: the exact
\* quotient num / den
progressPercent(genre, max) ==
    IF max > 0
    THEN [num |-> OrDefault(genre.movies_count, 0) * 100, den |-> max]
    ELSE [num |-> 0, den |-> 1]

\* the progress list: one item per genre of genres.slice(0, 10)
PopularGenresWidget(genres) ==
    LET shown == SliceTo(genres, PopularGenresCap) IN
    [i \in 1..Len(shown) |->
        [genre |-> shown[i],
         count |-> OrDefault(shown[i].movies_count, 0),
         progressPercent |-> progressPercent(shown[i], maxMoviesCount(genres))]]

----------------------------------------------------------------------------
(* The API client (services/api.ts) *)

\* What the HTTP request for GET /homepage/ ends in: a 2xx response carrying
\* the payload, or an axios error in one of its three shapes: a response with
\* an error status, no response received (a timeout included), or a request
\* that could not be set up.
ErrorShapes ==
    {[ok |-> FALSE, response |-> TRUE,  request |-> TRUE,  data |-> None],
     [ok |-> FALSE, response |-> FALSE, request |-> TRUE,  data |-> None],
     [ok |-> FALSE, response |-> FALSE, request |-> FALSE, data |-> None]}

Outcomes ==
    {[ok |-> TRUE, response |-> TRUE, request |-> TRUE, data |-> Some(d)] :
        d \in HomepageData} \cup ErrorShapes

\* an interceptor whose last branch returns instead of rejecting
ResponseInterceptorSwallows(raw) ==
    IF raw.ok
    THEN [rejected |-> FALSE, data |-> raw.data, logged |-> "none"]
    ELSE IF raw.response \/ raw.request
    THEN [rejected |-> TRUE, data |-> None,
          logged |-> IF raw.response THEN "Response error" ELSE "Request error"]
    ELSE [rejected |-> FALSE, data |-> None, logged |-> "Error"]

\* api.interceptors.response.use(onFulfilled, onRejected): what the caller's
\* await receives, and which diagnostic line was logged
ResponseInterceptor(raw) ==
    IF raw.ok
    THEN [rejected |-> FALSE, data |-> raw.data, logged |-> "none"]
    ELSE [rejected |-> TRUE, data |-> None,
          logged |-> IF raw.response THEN "Response error"
                     ELSE IF raw.request THEN "Request error"
                     ELSE "Error"]

----------------------------------------------------------------------------
(* HomePage (components/HomePage.tsx) *)

\* 'Ошибка загрузки данных. Проверьте подключение к серверу.'
ErrorMessage == "Error loading data. Check the connection to the server."

\* which of the three returns of the render function is taken
View ==
    IF loading THEN "Loading"
    ELSE IF error # None THEN "Failed"
    ELSE "Ready"

\* a render that tests error before loading
RetryControlShownWhileLoading == error # None

\* the retry button is part of the error view only
RetryControlShown == View = "Failed"

\* data?.top_movies || [], data?.popular_genres || [], data?.new_releases || []
TopMoviesProp == IF data = None THEN <<>> ELSE data[1].top_movies
PopularGenresProp == IF data = None THEN <<>> ELSE data[1].popular_genres
NewReleasesProp == IF data = None THEN <<>> ELSE data[1].new_releases

\* a fourth column that adds up all three sequences
CountersSumOfThree ==
    [top_movies |-> Len(TopMoviesProp),
     popular_genres |-> Len(PopularGenresProp),
     new_releases |-> Len(NewReleasesProp),
     total |-> Len(TopMoviesProp) + Len(PopularGenresProp) + Len(NewReleasesProp)]

\* the statistics row: data?.xs?.length || 0 for each of the three columns,
\* then the fourth column
Counters ==
    [top_movies |-> Len(TopMoviesProp),
     popular_genres |-> Len(PopularGenresProp),
     new_releases |-> Len(NewReleasesProp),
     total |-> Len(TopMoviesProp) + Len(NewReleasesProp)]

PageInit ==
    /\ data = None
    /\ loading = TRUE
    /\ error = None
    /\ mounted = FALSE
    /\ inflight = {}
    /\ issued = 0
    /\ retries = 0
    /\ lastSettled = [id |-> 0, raw |-> [ok |-> FALSE, response |-> FALSE,
                                         request |-> FALSE, data |-> None],
                      rejected |-> FALSE, logged |-> "none"]

\* no widget is rendered on its own
NoWidget ==
    /\ widget = "none"
    /\ props = <<>>
    /\ rendered = None

\* the state SearchBar is constructed in
SearchInit ==
    /\ searchQuery = <<>>
    /\ isSearching = FALSE
    /\ searchInflight = {}
    /\ searchIssued = 0
    /\ lastAlert = [kind |-> "none", found |-> 0]

Init == PageInit /\ NoWidget /\ SearchInit

\* fetchHomepageData without its setLoading(true)
FetchStartNotBusy ==
    /\ loading' = loading
    /\ issued' = issued + 1
    /\ inflight' = inflight \cup {issued + 1}

\* fetchHomepageData up to its await: setLoading(true), then the request
FetchStart ==
    /\ loading' = TRUE
    /\ issued' = issued + 1
    /\ inflight' = inflight \cup {issued + 1}

\* a mount effect that runs its body twice
MountTwice ==
    /\ ~mounted
    /\ mounted' = TRUE
    /\ loading' = TRUE
    /\ issued' = issued + 2
    /\ inflight' = inflight \cup {issued + 1, issued + 2}
    /\ UNCHANGED <<data, error, retries, lastSettled>>
    /\ UNCHANGED <<widgetVars, searchVars>>

\* useEffect(() => { fetchHomepageData(); }, [])
Mount ==
    /\ ~mounted
    /\ mounted' = TRUE
    /\ FetchStart
    /\ UNCHANGED <<data, error, retries, lastSettled>>
    /\ UNCHANGED <<widgetVars, searchVars>>

\* onClick={fetchHomepageData} of the retry button
Retry ==
    /\ mounted
    /\ RetryControlShown
    /\ issued < MaxFetches
    /\ retries' = retries + 1
    /\ FetchStart
    /\ UNCHANGED <<data, error, mounted, lastSettled>>
    /\ UNCHANGED <<widgetVars, searchVars>>

\* a try block without setError(null)
FetchResolvedKeepsError(id, response) ==
    /\ inflight' = inflight \ {id}
    /\ data' = response.data
    /\ loading' = FALSE
    /\ UNCHANGED <<error, issued, retries>>

\* the await returns: the try block after it, then finally
FetchResolved(id, response) ==
    /\ inflight' = inflight \ {id}
    /\ data' = response.data
    /\ error' = None
    /\ loading' = FALSE
    /\ UNCHANGED <<issued, retries>>

\* a catch block without the finally
FetchRejectedStaysBusy(id) ==
    /\ inflight' = inflight \ {id}
    /\ error' = Some(ErrorMessage)
    /\ UNCHANGED <<data, loading, issued, retries>>

\* a catch block that calls fetchHomepageData again
FetchRejectedAutoRetry(id) ==
    /\ error' = Some(ErrorMessage)
    /\ IF issued < MaxFetches
       THEN /\ loading' = TRUE
            /\ issued' = issued + 1
            /\ inflight' = (inflight \ {id}) \cup {issued + 1}
       ELSE /\ loading' = FALSE
            /\ inflight' = inflight \ {id}
            /\ UNCHANGED issued
    /\ UNCHANGED <<data, retries>>

\* the await throws: the catch block, then finally
FetchRejected(id) ==
    /\ inflight' = inflight \ {id}
    /\ error' = Some(ErrorMessage)
    /\ loading' = FALSE
    /\ UNCHANGED <<data, issued, retries>>

\* a pending getHomepageData() promise settles with one of raws and
\* fetchHomepageData resumes
SettleWith(raws) ==
    \E id \in inflight, raw \in raws :
        LET signal == ResponseInterceptor(raw) IN
        /\ lastSettled' = [id |-> id, raw |-> raw,
                           rejected |-> signal.rejected, logged |-> signal.logged]
        /\ IF signal.rejected THEN FetchRejected(id) ELSE FetchResolved(id, signal)
        /\ UNCHANGED mounted
        /\ UNCHANGED <<widgetVars, searchVars>>

Settle == SettleWith(Outcomes)

Next == Mount \/ Retry \/ Settle

Spec == Init /\ [][Next]_vars

\* The same page over the responses that carry no genres: what a response
\* carries plays no part in how the lifecycle proceeds.
LiveOutcomes == {raw \in Outcomes : raw.ok => raw.data[1].popular_genres = <<>>}

LiveSettle == SettleWith(LiveOutcomes)

LiveNext == Mount \/ Retry \/ LiveSettle

\* The mount effect runs once the first render is committed, and every
\* request settles: axios rejects it after timeout: 10000 at the latest.
LiveSpec == Init /\ [][LiveNext]_vars /\ WF_vars(Mount) /\ WF_vars(LiveSettle)

----------------------------------------------------------------------------
(* The cards of the movie widgets (widgets/TopMoviesWidget.tsx and           *)
(* widgets/NewReleasesWidget.tsx)                                            *)
(*                                                                           *)
(* A string is the sequence of its UTF-16 code units. An instant, the value  *)
(* of Date.getTime(), is kept as its whole days and the milliseconds within  *)
(* the day: [day |-> d, ms |-> m] is d * MsPerDay + m milliseconds.          *)

MaxTitle == 25       \* longest movie title
MaxDay == 70         \* latest day of a release date
NowDay == 35         \* the day the page is rendered on
MaxRating == 500     \* largest avg_rating, in hundredths

MsPerDay == 86400000 \* 1000 * 60 * 60 * 24
TitleBudget == 20    \* movie.title.length > 20, substring(0, 20)
NewDays == 30        \* daysAgo <= 30

\* '...'
Ellipsis == <<46, 46, 46>>

AssetOrigin == "http://localhost:8000"
NewReleasesPlaceholder == "https://via.placeholder.com/150x225/6c757d/ffffff?text=No+Image"
TopMoviesPlaceholder == "https://via.placeholder.com/60x90/6c757d/ffffff?text=No+Image"

\* an optional string is truthy when it is there and not empty
Truthy(opt) == opt # None /\ opt[1] # ""

\* a getMovieImage that looks at poster_url first
getMovieImageUrlFirst(movie, placeholder) ==
    IF Truthy(movie.poster_url) THEN movie.poster_url[1]
    ELSE IF Truthy(movie.poster_image) THEN AssetOrigin \o movie.poster_image[1]
    ELSE placeholder

\* getMovieImage, the same function in both widgets but for the placeholder
getMovieImage(movie, placeholder) ==
    IF Truthy(movie.poster_image) THEN AssetOrigin \o movie.poster_image[1]
    ELSE IF Truthy(movie.poster_url) THEN movie.poster_url[1]
    ELSE placeholder

\* Math.abs(a.getTime() - b.getTime()); NaN (None) if either date is invalid
AbsDiffTime(a, b) ==
    IF a = None \/ b = None THEN None
    ELSE LET later == a[1].day > b[1].day \/ (a[1].day = b[1].day /\ a[1].ms >= b[1].ms)
             hi == IF later THEN a[1] ELSE b[1]
             lo == IF later THEN b[1] ELSE a[1]
         IN  Some(IF hi.ms >= lo.ms
                  THEN [day |-> hi.day - lo.day, ms |-> hi.ms - lo.ms]
                  ELSE [day |-> hi.day - lo.day - 1, ms |-> hi.ms - lo.ms + MsPerDay])

\* a getDaysAgo that rounds down
getDaysAgoFloor(release_date, today) ==
    LET diffTime == AbsDiffTime(today, release_date) IN
    IF diffTime = None THEN None ELSE Some(diffTime[1].day)

\* getDaysAgo: Math.ceil(diffTime / (1000 * 60 * 60 * 24)); today is new Date()
getDaysAgo(release_date, today) ==
    LET diffTime == AbsDiffTime(today, release_date) IN
    IF diffTime = None THEN None
    ELSE Some(diffTime[1].day + (IF diffTime[1].ms > 0 THEN 1 ELSE 0))

\* a truncation that also cuts a title of exactly 20 characters
TruncatedTitleFrom20(title) ==
    IF Len(title) >= TitleBudget
    THEN SubSeq(title, 1, Min(TitleBudget, Len(title))) \o Ellipsis
    ELSE title

\* movie.title.length > 20 ? `${movie.title.substring(0, 20)}...` : movie.title
TruncatedTitle(title) ==
    IF Len(title) > TitleBudget
    THEN SubSeq(title, 1, Min(TitleBudget, Len(title))) \o Ellipsis
    ELSE title

\* one card of the grid, for an entry of NewReleasesWidget(movies)
NewReleaseCard(entry, today) ==
    LET daysAgo == getDaysAgo(entry.movie.release_date, today) IN
    [movie |-> entry.movie,
     image |-> getMovieImage(entry.movie, NewReleasesPlaceholder),
     daysAgo |-> daysAgo,
     isNew |-> daysAgo # None /\ daysAgo[1] <= NewDays,
     title |-> TruncatedTitle(entry.movie.title)]

\* a renderStars that wants more than half for the extra star
renderStarsAboveHalf(rating) ==
    LET fullStars == rating \div 100
        hasHalfStar == rating % 100 > 50
    IN  [i \in 1..(fullStars + (IF hasHalfStar THEN 1 ELSE 0)) |-> "star"]

\* renderStars: Math.floor(rating) stars, one more if rating % 1 >= 0.5;
\* the rating is in hundredths
renderStars(rating) ==
    LET fullStars == rating \div 100
        hasHalfStar == rating % 100 >= 50
    IN  [i \in 1..(fullStars + (IF hasHalfStar THEN 1 ELSE 0)) |-> "star"]

\* one item of the ranked list, for an entry of TopMoviesWidget(movies);
\* {movie.avg_rating && (...)} renders no stars for undefined and for 0
TopMovieItem(entry) ==
    [rank |-> entry.rank,
     movie |-> entry.movie,
     image |-> getMovieImage(entry.movie, TopMoviesPlaceholder),
     stars |-> IF OrDefault(entry.movie.avg_rating, 0) = 0 THEN <<>>
               ELSE renderStars(entry.movie.avg_rating[1])]

----------------------------------------------------------------------------
(* The props the widgets are rendered with *)

\* a title of n code units, 'a', 'b', ...
Title(n) == [i \in 1..n |-> 96 + i]

MsOfDay == {0, 1, MsPerDay - 1}

\* release_date: the instant the string stands for, None for a string that
\* new Date() cannot parse
ReleaseDates ==
    {None} \cup {Some([day |-> d, ms |-> m]) : d \in 0..MaxDay, m \in MsOfDay}

\* the values of new Date() while the page is rendered
Todays == {Some([day |-> NowDay, ms |-> m]) : m \in MsOfDay}

PosterImages == {None, Some(""), Some("/media/posters/1.jpg")}
PosterUrls == {None, Some(""), Some("https://example.com/1.jpg")}
Ratings == {None} \cup {Some(r) : r \in 0..MaxRating}

DefaultMovie ==
    [id |-> 0, title |-> Title(1), release_date |-> Some([day |-> 0, ms |-> 0]),
     poster_image |-> None, poster_url |-> None, avg_rating |-> None]

\* movies that differ from DefaultMovie in one respect
SampleMovies ==
    {[DefaultMovie EXCEPT !.title = Title(n)] : n \in 0..MaxTitle}
    \cup {[DefaultMovie EXCEPT !.release_date = r] : r \in ReleaseDates}
    \cup {[DefaultMovie EXCEPT !.poster_image = pi, !.poster_url = pu] :
             pi \in PosterImages, pu \in PosterUrls}
    \cup {[DefaultMovie EXCEPT !.avg_rating = a] : a \in Ratings}

\* Movie[] of n entries alike but for their ids
MoviesLike(movie, n) == [i \in 1..n |-> [movie EXCEPT !.id = i]]

\* a widget is handed its props; nothing is rendered yet
WidgetInit ==
    /\ PageInit
    /\ SearchInit
    /\ rendered = None
    /\ \/ /\ widget = "top"
          /\ props \in {MoviesLike(m, n) : m \in SampleMovies, n \in 0..MaxTop}
       \/ /\ widget = "new"
          /\ props \in {MoviesLike(m, n) : m \in SampleMovies, n \in 0..MaxRel}
       \/ /\ widget = "genres"
          /\ props \in GenreLists

\* a render of TopMoviesWidget that cuts the array it was given
RenderTopMoviesInPlace ==
    /\ widget = "top"
    /\ rendered = None
    /\ rendered' = Some([items |-> [i \in DOMAIN TopMoviesWidget(props) |->
                                       TopMovieItem(TopMoviesWidget(props)[i])]])
    /\ props' = SliceTo(props, TopMoviesCap)
    /\ UNCHANGED <<pageVars, widget, searchVars>>

\* TopMoviesWidget renders
RenderTopMovies ==
    /\ widget = "top"
    /\ rendered = None
    /\ rendered' = Some([items |-> [i \in DOMAIN TopMoviesWidget(props) |->
                                       TopMovieItem(TopMoviesWidget(props)[i])]])
    /\ UNCHANGED <<pageVars, widget, props, searchVars>>

\* NewReleasesWidget renders; each card reads the clock
RenderNewReleases ==
    /\ widget = "new"
    /\ rendered = None
    /\ \E today \in Todays :
           rendered' = Some([today |-> today,
                             items |-> [i \in DOMAIN NewReleasesWidget(props) |->
                                           NewReleaseCard(NewReleasesWidget(props)[i], today)]])
    /\ UNCHANGED <<pageVars, widget, props, searchVars>>

\* PopularGenresWidget renders
RenderPopularGenres ==
    /\ widget = "genres"
    /\ rendered = None
    /\ rendered' = Some([items |-> PopularGenresWidget(props)])
    /\ UNCHANGED <<pageVars, widget, props, searchVars>>

WidgetNext == RenderTopMovies \/ RenderNewReleases \/ RenderPopularGenres

WidgetSpec == WidgetInit /\ [][WidgetNext]_vars

----------------------------------------------------------------------------
(* SearchBar (components/common/SearchBar.tsx), which HomePage shows inside  *)
(* Header once it is Ready                                                   *)

MaxQuery == 3        \* longest text typed into the search field
MaxSearches == 3     \* searchMovies() calls explored per run
MaxFound == 2        \* most movies a search response carries

\* the texts the user types: code units ' ' and 'a'
Queries ==
    UNION {[1..n -> {" ", "a"}] : n \in 0..MaxQuery}

\* String.prototype.trim()
RECURSIVE Trim(_)
Trim(q) ==
    IF q = <<>> THEN <<>>
    ELSE IF Head(q) = " " THEN Trim(Tail(q))
    ELSE IF q[Len(q)] = " " THEN Trim(SubSeq(q, 1, Len(q) - 1))
    ELSE q

\* what a GET /search/ ends in
SearchOutcomes ==
    {[ok |-> TRUE, response |-> TRUE, request |-> TRUE, data |-> Some([movies |-> n])] :
        n \in 0..MaxFound} \cup ErrorShapes

\* a text field that stays enabled during a search
InputAlwaysEnabled == TRUE

\* <Form.Control disabled={isSearching}>
InputEnabled == ~isSearching

\* <Button type="submit" disabled={isSearching || !searchQuery.trim()}>
SubmitEnabled == ~(isSearching \/ Trim(searchQuery) = <<>>)

\* HomePage is Ready, with the data of its first fetch, and shows the Header
\* with a new SearchBar
SearchBarInit ==
    /\ data \in {Some(d) : d \in HomepageData}
    /\ data[1].popular_genres = <<>>
    /\ data[1].top_movies = <<>>
    /\ data[1].new_releases = <<>>
    /\ loading = FALSE
    /\ error = None
    /\ mounted = TRUE
    /\ inflight = {}
    /\ issued = 1
    /\ retries = 0
    /\ lastSettled = [id |-> 1,
                      raw |-> [ok |-> TRUE, response |-> TRUE, request |-> TRUE,
                               data |-> data],
                      rejected |-> FALSE, logged |-> "none"]
    /\ NoWidget
    /\ SearchInit

\* handleInputChange: setSearchQuery(e.target.value)
handleInputChange ==
    /\ InputEnabled
    /\ \E value \in Queries : searchQuery' = value
    /\ UNCHANGED <<isSearching, searchInflight, searchIssued, lastAlert>>
    /\ UNCHANGED <<pageVars, widgetVars>>

\* handleSearch up to its await: e.preventDefault(), the early return on a
\* blank query, setIsSearching(true), then searchMovies({q: searchQuery.trim()})
handleSearch ==
    IF Trim(searchQuery) = <<>>
    THEN UNCHANGED searchVars
    ELSE /\ searchIssued < MaxSearches
         /\ isSearching' = TRUE
         /\ searchIssued' = searchIssued + 1
         /\ searchInflight' = searchInflight \cup
                                  {[id |-> searchIssued + 1, q |-> Trim(searchQuery)]}
         /\ UNCHANGED <<searchQuery, lastAlert>>

\* a click on the submit button: <Form onSubmit={handleSearch}>
SubmitForm ==
    /\ SubmitEnabled
    /\ handleSearch
    /\ UNCHANGED <<pageVars, widgetVars>>

\* Enter in the text field: handleKeyPress calls handleSearch, whose
\* preventDefault() keeps the browser from submitting the form as well
handleKeyPress ==
    /\ InputEnabled
    /\ handleSearch
    /\ UNCHANGED <<pageVars, widgetVars>>

\* a pending searchMovies() promise settles and handleSearch resumes: the
\* alert of the try block or of the catch block, then finally
SearchSettled ==
    \E req \in searchInflight, raw \in SearchOutcomes :
        LET signal == ResponseInterceptor(raw) IN
        /\ searchInflight' = searchInflight \ {req}
        /\ lastAlert' = IF signal.rejected THEN [kind |-> "error", found |-> 0]
                        ELSE [kind |-> "found", found |-> signal.data[1].movies]
        /\ isSearching' = FALSE
        /\ UNCHANGED <<searchQuery, searchIssued>>
        /\ UNCHANGED <<pageVars, widgetVars>>

SearchNext == handleInputChange \/ SubmitForm \/ handleKeyPress \/ SearchSettled

SearchSpec == SearchBarInit /\ [][SearchNext]_vars

----------------------------------------------------------------------------
(* Properties of the fetch lifecycle *)

\* a step in which a pending promise settles
Settled == inflight' # inflight /\ inflight' \subseteq inflight

\* C1: whenever the page is not busy, what it displays is the outcome of the
\* most recently issued fetch: that fetch is the one that settled last, and
\* the page shows its data (Ready) or the error message (Failed).
C1_LatestFetchDisplayed ==
    (mounted /\ ~loading) =>
        /\ lastSettled.id = issued
        /\ IF lastSettled.rejected
           THEN View = "Failed" /\ error = Some(ErrorMessage)
           ELSE View = "Ready" /\ error = None /\ data = lastSettled.raw.data

C1_Witness ==
    /\ issued >= 2
    /\ ~loading
    /\ lastSettled.id = issued
    /\ ~lastSettled.rejected
    /\ data = lastSettled.raw.data

\* C2: mounting issues exactly one fetch, at most one fetch is in flight, and
\* while one is in flight the page shows the busy indicator.
C2_OneFetchInFlight ==
    /\ Cardinality(inflight) <= 1
    /\ inflight # {} => loading /\ View = "Loading"
    /\ ~mounted => issued = 0
    /\ (mounted /\ retries = 0) => issued = 1

C2_Witness ==
    /\ mounted
    /\ retries = 0
    /\ inflight = {1}
    /\ View = "Loading"

\* C3: a step in which a fetch fails takes the page from Loading to Failed:
\* loading is false, error is the message, the retry button is shown.
C3_FailureShowsRetry ==
    [][(Settled /\ ~lastSettled'.raw.ok) =>
          /\ View = "Loading"
          /\ View' = "Failed"
          /\ loading' = FALSE
          /\ error' = Some(ErrorMessage)
          /\ RetryControlShown']_vars

C3_Witness ==
    /\ lastSettled.id >= 1
    /\ ~lastSettled.raw.ok
    /\ View = "Failed"
    /\ RetryControlShown

\* C4: a click on the retry button happens in the Failed view, takes the page
\* to Loading at once and issues exactly one new fetch.
C4_RetryReentersLoading ==
    [][retries' # retries =>
          /\ retries' = retries + 1
          /\ View = "Failed"
          /\ View' = "Loading"
          /\ issued' = issued + 1
          /\ inflight' = inflight \cup {issued'}
          /\ Cardinality(inflight') = Cardinality(inflight) + 1]_vars

C4_Witness ==
    /\ retries >= 1
    /\ View = "Loading"
    /\ inflight = {issued}
    /\ lastSettled.id = issued - 1

\* C5: no fetch is issued but by the mount and by the retry button: once
\* mounted, the fetches issued are 1 + the retry clicks, and in the Failed
\* view nothing is in flight.
C5_NoAutomaticRetry ==
    /\ mounted => issued = 1 + retries
    /\ ~mounted => issued = 0 /\ retries = 0
    /\ View = "Failed" => inflight = {}

C5_Witness ==
    /\ View = "Failed"
    /\ lastSettled.id = issued
    /\ inflight = {}
    /\ retries >= 1

\* C6: in the Failed view the retry button can be clicked, and once a retried
\* fetch has succeeded the page is Ready with that fetch's data and no error,
\* however many failures came before.
C6_FailureRecoverable ==
    /\ (View = "Failed" /\ issued < MaxFetches) => RetryControlShown /\ ENABLED Retry
    /\ (retries >= 1 /\ inflight = {} /\ lastSettled.raw.ok) =>
           /\ View = "Ready"
           /\ error = None
           /\ data = lastSettled.raw.data

C6_Witness ==
    /\ retries >= 2
    /\ lastSettled.raw.ok
    /\ View = "Ready"
    /\ error = None

\* C7: whichever of the three shapes a failure has, the interceptor rejects,
\* and HomePage holds the one error message and (when not busy again) shows
\* the Failed view.
C7_FailuresUndifferentiated ==
    (lastSettled.id >= 1 /\ lastSettled.raw \in ErrorShapes) =>
        /\ lastSettled.rejected
        /\ error = Some(ErrorMessage)
        /\ ~loading => View = "Failed"

C7_Witness ==
    /\ lastSettled.id >= 1
    /\ ~lastSettled.raw.ok
    /\ ~lastSettled.raw.response
    /\ ~lastSettled.raw.request
    /\ lastSettled.rejected
    /\ lastSettled.logged = "Error"
    /\ View = "Failed"

----------------------------------------------------------------------------
(* Properties of the rendered page *)

\* the largest displayed count, Math.max over genres.slice(0, 10)
DisplayedMax == maxMoviesCount(SliceTo(PopularGenresProp, PopularGenresCap))

\* C8: every displayed genre's percentage is 100 * count / (the largest count
\* among the displayed genres), and 0 when that largest count is 0.
C8_PercentOfDisplayedMax ==
    View = "Ready" =>
        \A i \in DOMAIN PopularGenresWidget(PopularGenresProp) :
            LET item == PopularGenresWidget(PopularGenresProp)[i] IN
            IF DisplayedMax = 0
            THEN item.progressPercent.num = 0
            ELSE item.progressPercent.num * DisplayedMax
                     = 100 * item.count * item.progressPercent.den

\* C9 as stated: the four counters are the three lengths and the sum of the
\* three lengths.
C9_TotalIsSumOfThree ==
    View = "Ready" =>
        /\ Counters.top_movies = Len(TopMoviesProp)
        /\ Counters.popular_genres = Len(PopularGenresProp)
        /\ Counters.new_releases = Len(NewReleasesProp)
        /\ Counters.total = Len(TopMoviesProp) + Len(PopularGenresProp)
                                + Len(NewReleasesProp)

\* C9 as amended: the first three counters are the lengths of top_movies,
\* popular_genres and new_releases, the fourth is the number of movies, that
\* is the length of top_movies plus the length of new_releases; all four are
\* 0 when the three sequences are empty.
C9_TotalIsSumOfMovieLists ==
    View = "Ready" =>
        /\ Counters.top_movies = Len(lastSettled.raw.data[1].top_movies)
        /\ Counters.popular_genres = Len(lastSettled.raw.data[1].popular_genres)
        /\ Counters.new_releases = Len(lastSettled.raw.data[1].new_releases)
        /\ Counters.total = Len(lastSettled.raw.data[1].top_movies)
                                + Len(lastSettled.raw.data[1].new_releases)
        /\ (/\ lastSettled.raw.data[1].top_movies = <<>>
            /\ lastSettled.raw.data[1].popular_genres = <<>>
            /\ lastSettled.raw.data[1].new_releases = <<>>) =>
               /\ Counters.top_movies = 0
               /\ Counters.popular_genres = 0
               /\ Counters.new_releases = 0
               /\ Counters.total = 0

C9_Witness ==
    /\ View = "Ready"
    /\ Len(PopularGenresProp) >= 1
    /\ Len(TopMoviesProp) >= 1
    /\ Len(NewReleasesProp) >= 1
    /\ Counters.total = Len(TopMoviesProp) + Len(NewReleasesProp)
    /\ Counters.total < Len(TopMoviesProp) + Len(PopularGenresProp)
                            + Len(NewReleasesProp)

\* C10: the ranked list shows min(8, length) entries, the progress list
\* min(10, length), the grid min(6, length): never more than 8, 10 and 6.
C10_DisplayCaps ==
    View = "Ready" =>
        /\ Len(TopMoviesWidget(TopMoviesProp)) = Min(8, Len(TopMoviesProp))
        /\ Len(PopularGenresWidget(PopularGenresProp)) = Min(10, Len(PopularGenresProp))
        /\ Len(NewReleasesWidget(NewReleasesProp)) = Min(6, Len(NewReleasesProp))
        /\ Len(TopMoviesWidget(TopMoviesProp)) <= 8
        /\ Len(PopularGenresWidget(PopularGenresProp)) <= 10
        /\ Len(NewReleasesWidget(NewReleasesProp)) <= 6

C10_Witness ==
    /\ View = "Ready"
    /\ Len(TopMoviesProp) > 8
    /\ Len(PopularGenresProp) > 10
    /\ Len(NewReleasesProp) > 6
    /\ Len(TopMoviesWidget(TopMoviesProp)) = 8
    /\ Len(PopularGenresWidget(PopularGenresProp)) = 10
    /\ Len(NewReleasesWidget(NewReleasesProp)) = 6

----------------------------------------------------------------------------
(* Properties of the lifecycle states *)

\* C16: a step in which a fetch settles, by a response or by an error (the
\* timeout is one), leaves loading false, and every Loading state is
\* followed by a Ready or a Failed one.
C16_LoadingEnds ==
    /\ [][Settled => loading' = FALSE]_vars
    /\ (View = "Loading") ~> (View = "Ready" \/ View = "Failed")

C16_Witness ==
    /\ lastSettled.id >= 1
    /\ ~lastSettled.raw.ok
    /\ ~lastSettled.raw.response
    /\ lastSettled.raw.request
    /\ inflight = {}
    /\ loading = FALSE

\* C17: whenever loading is false exactly one of error and data is non-null:
\* the widgets are shown only with the data of a successful fetch, the error
\* view only while no data is held.
C17_ExactlyOneOfErrorAndData ==
    /\ ~loading => ((error # None) # (data # None))
    /\ View = "Ready" => (data # None /\ lastSettled.raw.ok /\ data = lastSettled.raw.data)
    /\ View = "Failed" => data = None

C17_Witness ==
    /\ ~loading
    /\ issued = 2
    /\ error = None
    /\ data # None

----------------------------------------------------------------------------
(* Properties of the widgets rendered on their own *)

\* the items a widget has rendered
Items == rendered[1].items

\* instant a is no more than 30 days after instant b
NoMoreThan30DaysAfter(a, b) ==
    a.day - b.day < 30 \/ (a.day - b.day = 30 /\ a.ms <= b.ms)

\* C11: a card of the release grid carries the NEW badge exactly when its
\* release date and the current date are no more than 30 days apart, in
\* either direction: a release up to 30 days ahead has it, one that is 30
\* days and a fraction away has not.  That is daysAgo <= 30 for the rounded-up
\* absolute difference getDaysAgo returns.
C11_NewBadgeWithin30Days ==
    (widget = "new" /\ rendered # None) =>
        \A i \in DOMAIN Items :
            LET card == Items[i]
                release == props[i].release_date
                today == rendered[1].today
            IN  /\ card.movie = props[i]
                /\ card.isNew <=> (card.daysAgo # None /\ card.daysAgo[1] <= 30)
                /\ card.isNew <=>
                       /\ release # None
                       /\ NoMoreThan30DaysAfter(today[1], release[1])
                       /\ NoMoreThan30DaysAfter(release[1], today[1])

C11_Witness ==
    /\ widget = "new"
    /\ rendered # None
    /\ \E i \in DOMAIN Items :
           /\ Items[i].isNew
           /\ props[i].release_date # None
           /\ props[i].release_date[1].day = rendered[1].today[1].day + 30
           /\ props[i].release_date[1].ms = rendered[1].today[1].ms

\* C12: a render leaves the array it was given as it is, and the items it
\* shows are the leading entries of that array in their order; the i-th
\* item of the ranked list (counting from 1) carries the rank i.
C12_PrefixInOrderInputUntouched ==
    [][(rendered = None /\ rendered' # None) =>
          /\ props' = props
          /\ Len(rendered'[1].items) <= Len(props)
          /\ \A i \in DOMAIN rendered'[1].items :
                 /\ (IF widget = "genres" THEN rendered'[1].items[i].genre
                     ELSE rendered'[1].items[i].movie) = props[i]
                 /\ widget = "top" => rendered'[1].items[i].rank = i]_vars

C12_Witness ==
    /\ widget = "top"
    /\ rendered # None
    /\ Len(props) > 8
    /\ Len(Items) = 8
    /\ Items[8].rank = 8
    /\ Items[8].movie = props[8]
    /\ props[8].id = 8

\* C13: a movie with a rating r (in hundredths) shows floor(r) stars and one
\* more exactly when the fraction is at least one half, that is r rounded to
\* the nearest whole with halves up: 5 stars for 4.5, 4 for 4.4, and never
\* more than floor(r) + 1.
C13_StarsRoundHalfUp ==
    (widget = "top" /\ rendered # None) =>
        \A i \in DOMAIN Items :
            props[i].avg_rating # None =>
                LET r == props[i].avg_rating[1]
                    n == Len(Items[i].stars)
                IN  /\ 100 * n <= r + 50
                    /\ r + 50 < 100 * (n + 1)
                    /\ n <= (r \div 100) + 1
                    /\ r = 450 => n = 5
                    /\ r = 440 => n = 4

C13_Witness ==
    /\ widget = "top"
    /\ rendered # None
    /\ \E i \in DOMAIN Items :
           /\ props[i].avg_rating = Some(450)
           /\ Len(Items[i].stars) = 5

\* C14: a title of more than 20 characters is shown as its first 20
\* characters and then '...', a title of 20 characters or fewer as it is.
C14_TitleTruncation ==
    (widget = "new" /\ rendered # None) =>
        \A i \in DOMAIN Items :
            LET title == props[i].title
                shown == Items[i].title
            IN  IF Len(title) > 20
                THEN /\ Len(shown) = 23
                     /\ \A k \in 1..20 : shown[k] = title[k]
                     /\ \A k \in 21..23 : shown[k] = 46
                ELSE shown = title

C14_Witness ==
    /\ widget = "new"
    /\ rendered # None
    /\ \E i \in DOMAIN Items :
           /\ Len(props[i].title) = 25
           /\ Len(Items[i].title) = 23
           /\ Items[i].title[20] = props[i].title[20]
           /\ Items[i].title[23] = 46

\* a poster field is present when it is there and not the empty string
Present(opt) == opt # None /\ opt # Some("")

\* C15: in both movie widgets the image of a movie is the asset-server
\* origin followed by the local poster path when that path is present (not
\* undefined, not empty), whether or not there is an external URL; else the
\* external URL as it is when that is present; else the placeholder.
C15_PosterPrecedence ==
    (widget \in {"top", "new"} /\ rendered # None) =>
        \A i \in DOMAIN Items :
            LET movie == props[i]
                image == Items[i].image
            IN  /\ movie.poster_image = Some("/media/posters/1.jpg") =>
                       image = "http://localhost:8000/media/posters/1.jpg"
                /\ (~Present(movie.poster_image)
                        /\ movie.poster_url = Some("https://example.com/1.jpg")) =>
                       image = "https://example.com/1.jpg"
                /\ (~Present(movie.poster_image) /\ ~Present(movie.poster_url)) =>
                       image = (IF widget = "top" THEN TopMoviesPlaceholder
                                ELSE NewReleasesPlaceholder)

C15_Witness ==
    /\ widget \in {"top", "new"}
    /\ rendered # None
    /\ \E i \in DOMAIN Items :
           /\ Present(props[i].poster_image)
           /\ Present(props[i].poster_url)
           /\ Items[i].image = "http://localhost:8000/media/posters/1.jpg"

----------------------------------------------------------------------------
(* Properties of SearchBar *)

\* C18: at most one search request is outstanding; a request is issued, by
\* the submit button or by Enter, only for a query that is not blank once
\* trimmed and while no earlier request is pending, and it carries the
\* trimmed query; isSearching is true while a request is pending and false
\* again once it has settled, with a result or with an error.
C18_OneSearchOutstanding ==
    [][/\ Cardinality(searchInflight') <= 1
       /\ isSearching' <=> (searchInflight' # {})
       /\ searchIssued' # searchIssued =>
              /\ Trim(searchQuery) # <<>>
              /\ searchInflight = {}
              /\ ~isSearching
              /\ searchInflight' = {[id |-> searchIssued', q |-> Trim(searchQuery)]}
       /\ (searchInflight' # searchInflight /\ searchInflight' \subseteq searchInflight) =>
              /\ ~isSearching'
              /\ lastAlert'.kind \in {"found", "error"}]_vars

C18_Witness ==
    /\ searchIssued >= 2
    /\ isSearching
    /\ Cardinality(searchInflight) = 1
    /\ lastAlert.kind = "error"
    /\ searchQuery # Trim(searchQuery)

====
